---- MODULE Spec2Model ----
(***************************************************************************)
(* Model of hnp-cli (src/src/main.rs): a document of ticket blocks is      *)
(* parsed, its annotations are resolved against catalogs fetched from the  *)
(* remote service, unknown tags are offered for creation, tickets are      *)
(* built and then submitted.                                               *)
(*                                                                         *)
(* Text is a sequence of one-character strings.  The regular expressions   *)
(* of the program are modelled by what they match (leftmost, greedy,       *)
(* non-overlapping), restricted to the ASCII characters listed below.      *)
(***************************************************************************)
EXTENDS Integers, Sequences, FiniteSets, TLC

(* ---------------------------------------------------------------------- *)
(* Characters                                                             *)
(* ---------------------------------------------------------------------- *)

LowerLetters ==
  {"a","b","c","d","e","f","g","h","i","j","k","l","m",
   "n","o","p","q","r","s","t","u","v","w","x","y","z"}

UpperLetters ==
  {"A","B","C","D","E","F","G","H","I","J","K","L","M",
   "N","O","P","Q","R","S","T","U","V","W","X","Y","Z"}

Digits ==
  {"0","1","2","3","4","5","6","7","8","9"}

\* \w of the regex crate, restricted to ASCII
WordChars ==
  LowerLetters \cup UpperLetters \cup Digits \cup {"_"}

\* char::is_whitespace, restricted to the characters used here
Whitespace ==
  {" ", "\n", "\t"}

LowerAlphabet ==
  <<"a","b","c","d","e","f","g","h","i","j","k","l","m",
    "n","o","p","q","r","s","t","u","v","w","x","y","z">>

UpperAlphabet ==
  <<"A","B","C","D","E","F","G","H","I","J","K","L","M",
    "N","O","P","Q","R","S","T","U","V","W","X","Y","Z">>

DigitAlphabet ==
  <<"0","1","2","3","4","5","6","7","8","9">>

IndexIn(alphabet, c) ==
  CHOOSE i \in 1..Len(alphabet) : alphabet[i] = c

\* byte value of a character: the order String::cmp (and so sort) uses
Ord(c) ==
  IF c \in UpperLetters THEN 64 + IndexIn(UpperAlphabet, c)
  ELSE IF c \in LowerLetters THEN 96 + IndexIn(LowerAlphabet, c)
  ELSE IF c \in Digits THEN 47 + IndexIn(DigitAlphabet, c)
  ELSE IF c = "\t" THEN 9
  ELSE IF c = "\n" THEN 10
  ELSE IF c = " " THEN 32
  ELSE IF c = "!" THEN 33
  ELSE IF c = "#" THEN 35
  ELSE IF c = "-" THEN 45
  ELSE IF c = "=" THEN 61
  ELSE IF c = "@" THEN 64
  ELSE IF c = "[" THEN 91
  ELSE IF c = "]" THEN 93
  ELSE IF c = "_" THEN 95
  ELSE 126

LowerChar(c) ==
  IF c \in UpperLetters THEN LowerAlphabet[IndexIn(UpperAlphabet, c)] ELSE c

\* str::to_lowercase
to_lowercase(s) ==
  [i \in 1..Len(s) |-> LowerChar(s[i])]

(* ---------------------------------------------------------------------- *)
(* str helpers                                                            *)
(* ---------------------------------------------------------------------- *)

IsPrefixAt(s, i, p) ==
  /\ i + Len(p) - 1 <= Len(s)
  /\ SubSeq(s, i, i + Len(p) - 1) = p

RECURSIVE SplitFrom(_, _, _, _)
SplitFrom(s, d, i, start) ==
  IF i + Len(d) - 1 > Len(s) THEN <<SubSeq(s, start, Len(s))>>
  ELSE IF IsPrefixAt(s, i, d)
       THEN <<SubSeq(s, start, i - 1)>> \o SplitFrom(s, d, i + Len(d), i + Len(d))
       ELSE SplitFrom(s, d, i + 1, start)

\* str::split(pattern): the pieces between the leftmost non-overlapping
\* occurrences of the delimiter; always at least one piece
split(s, d) ==
  SplitFrom(s, d, 1, 1)

RECURSIVE TrimStart(_)
TrimStart(s) ==
  IF Len(s) > 0 /\ s[1] \in Whitespace THEN TrimStart(Tail(s)) ELSE s

RECURSIVE TrimEnd(_)
TrimEnd(s) ==
  IF Len(s) > 0 /\ s[Len(s)] \in Whitespace
  THEN TrimEnd(SubSeq(s, 1, Len(s) - 1)) ELSE s

\* str::trim
trim(s) ==
  TrimEnd(TrimStart(s))

RECURSIVE Concat(_)
Concat(parts) ==
  IF parts = <<>> THEN <<>> ELSE Head(parts) \o Concat(Tail(parts))

RECURSIVE join(_, _)
join(parts, sep) ==
  IF parts = <<>> THEN <<>>
  ELSE IF Len(parts) = 1 THEN parts[1]
  ELSE parts[1] \o sep \o join(Tail(parts), sep)

\* str::replace(from, ""): every occurrence of `from` removed
remove_str(s, from) ==
  Concat(split(s, from))

RECURSIVE WordsFrom(_, _, _)
WordsFrom(s, i, word) ==
  IF i > Len(s) THEN (IF word = <<>> THEN <<>> ELSE <<word>>)
  ELSE IF s[i] \in Whitespace
       THEN (IF word = <<>> THEN <<>> ELSE <<word>>) \o WordsFrom(s, i + 1, <<>>)
       ELSE WordsFrom(s, i + 1, Append(word, s[i]))

\* str::split_whitespace
split_whitespace(s) ==
  WordsFrom(s, 1, <<>>)

\* str::matches(needle).count() != 0
Contains(hay, needle) ==
  \E i \in 1..(Len(hay) - Len(needle) + 1) : SubSeq(hay, i, i + Len(needle) - 1) = needle

RECURSIVE StrLess(_, _)
StrLess(a, b) ==
  IF b = <<>> THEN FALSE
  ELSE IF a = <<>> THEN TRUE
  ELSE IF Ord(a[1]) < Ord(b[1]) THEN TRUE
  ELSE IF Ord(a[1]) > Ord(b[1]) THEN FALSE
  ELSE StrLess(Tail(a), Tail(b))

RECURSIVE InsertSorted(_, _)
InsertSorted(sorted, x) ==
  IF sorted = <<>> THEN <<x>>
  ELSE IF StrLess(x, sorted[1]) THEN <<x>> \o sorted
  ELSE <<sorted[1]>> \o InsertSorted(Tail(sorted), x)

RECURSIVE sort(_)
sort(v) ==
  IF v = <<>> THEN <<>> ELSE InsertSorted(sort(SubSeq(v, 1, Len(v) - 1)), v[Len(v)])

RECURSIVE dedup(_)
dedup(v) ==
  IF Len(v) <= 1 THEN v
  ELSE IF v[1] = v[2] THEN dedup(Tail(v))
  ELSE <<v[1]>> \o dedup(Tail(v))

(* ---------------------------------------------------------------------- *)
(* The matchers.  A match is [lo, hi]: the positions it covers.           *)
(* ---------------------------------------------------------------------- *)

RECURSIVE RunEnd(_, _, _)
\* last position of the longest run of characters of `class` starting at i
\* (i - 1 when there is none)
RunEnd(s, i, class) ==
  IF i <= Len(s) /\ s[i] \in class THEN RunEnd(s, i + 1, class) ELSE i - 1

RECURSIVE SigilFindIter(_, _, _)
\* find_iter of the pattern  <sigil>\w+  from position i
SigilFindIter(s, sigil, i) ==
  IF i > Len(s) THEN <<>>
  ELSE IF s[i] = sigil /\ RunEnd(s, i + 1, WordChars) >= i + 1
       THEN <<[lo |-> i, hi |-> RunEnd(s, i + 1, WordChars)]>>
            \o SigilFindIter(s, sigil, RunEnd(s, i + 1, WordChars) + 1)
       ELSE SigilFindIter(s, sigil, i + 1)

HASH_TAG_MATCHER(s) ==
  SigilFindIter(s, "#", 1)

MENTION_MATCHER(s) ==
  SigilFindIter(s, "@", 1)

URGENCY_MATCHER(s) ==
  SigilFindIter(s, "!", 1)

\* one optional group (\d+<unit>)? tried at position p
EstimateGroup(s, p, unit) ==
  LET d == RunEnd(s, p, Digits)
  IN IF d >= p /\ d + 1 <= Len(s) /\ s[d + 1] = unit
     THEN [digits |-> SubSeq(s, p, d), next |-> d + 2]
     ELSE [digits |-> <<>>, next |-> p]

\* the match of ~(\d+d)?(\d+h)?(\d+m)?(\d+s)? that starts at the `~` at i
EstimateAt(s, i) ==
  LET gd == EstimateGroup(s, i + 1, "d")
      gh == EstimateGroup(s, gd.next, "h")
      gm == EstimateGroup(s, gh.next, "m")
      gs == EstimateGroup(s, gm.next, "s")
  IN [lo |-> i, hi |-> gs.next - 1,
      days |-> gd.digits, hours |-> gh.digits,
      minutes |-> gm.digits, seconds |-> gs.digits]

RECURSIVE EstimateFindIter(_, _)
EstimateFindIter(s, i) ==
  IF i > Len(s) THEN <<>>
  ELSE IF s[i] = "~"
       THEN <<EstimateAt(s, i)>> \o EstimateFindIter(s, EstimateAt(s, i).hi + 1)
       ELSE EstimateFindIter(s, i + 1)

ESTIMATE_MATCHER(s) ==
  EstimateFindIter(s, 1)

RECURSIVE LineEnd(_, _)
\* last position of the line that starts at i (`.` does not match a newline)
LineEnd(s, i) ==
  IF i <= Len(s) /\ s[i] # "\n" THEN LineEnd(s, i + 1) ELSE i - 1

RECURSIVE LineMatches(_, _)
\* find_iter of ^\[\].*$ in multi-line mode: every line that starts with []
LineMatches(s, lineStart) ==
  IF lineStart > Len(s) THEN <<>>
  ELSE (IF IsPrefixAt(s, lineStart, <<"[", "]">>)
        THEN <<[lo |-> lineStart, hi |-> LineEnd(s, lineStart)]>> ELSE <<>>)
       \o LineMatches(s, LineEnd(s, lineStart) + 2)

SUBTASK_MATCHER(s) ==
  LineMatches(s, 1)

MatchStr(s, m) ==
  SubSeq(s, m.lo, m.hi)

RECURSIVE ReplaceFrom(_, _, _, _)
ReplaceFrom(s, ms, reps, pos) ==
  IF ms = <<>> THEN SubSeq(s, pos, Len(s))
  ELSE SubSeq(s, pos, ms[1].lo - 1) \o reps[1]
       \o ReplaceFrom(s, Tail(ms), Tail(reps), ms[1].hi + 1)

\* Regex::replace_all: ms are the matches, reps their replacements
replace_all(s, ms, reps) ==
  ReplaceFrom(s, ms, reps, 1)

\* Regex::replace_all(s, "")
remove_all(s, ms) ==
  replace_all(s, ms, [i \in 1..Len(ms) |-> <<>>])

(* ---------------------------------------------------------------------- *)
(* Resolution against the catalogs                                        *)
(* A category or tag entry is [id, name]; a user is [id, name, username]; *)
(* an importance level is [id, name, is_default].                         *)
(* ---------------------------------------------------------------------- *)

None ==
  [some |-> FALSE, value |-> <<>>]

Some(v) ==
  [some |-> TRUE, value |-> v]

\* Iterator::find as a position: the first of the positions whose entry
\* satisfies the predicate, 0 if there is none
FindIndex(satisfying) ==
  IF satisfying = {} THEN 0
  ELSE CHOOSE i \in satisfying : \A j \in satisfying : i <= j

\* the closure of match_tags_and_categories, for one match of HASH_TAG_MATCHER
ClassifyHashTag(matched, available_categories, available_tags) ==
  LET hash_tag == trim(remove_str(matched, <<"#">>))
      NameIs(entry) == to_lowercase(entry.name) = hash_tag
      c == FindIndex({i \in 1..Len(available_categories) : NameIs(available_categories[i])})
      t == FindIndex({i \in 1..Len(available_tags) : NameIs(available_tags[i])})
  IN IF c # 0
     THEN [kind |-> "Category", id |-> available_categories[c].id,
           name |-> available_categories[c].name]
     ELSE IF t # 0
          THEN [kind |-> "Tag", id |-> available_tags[t].id,
                name |-> available_tags[t].name]
          ELSE [kind |-> "UnaddedTag", id |-> 0, name |-> hash_tag]

match_tags_and_categories(title, available_categories, available_tags) ==
  LET ms == HASH_TAG_MATCHER(title)
  IN [i \in 1..Len(ms) |->
        ClassifyHashTag(MatchStr(title, ms[i]), available_categories, available_tags)]

\* the find of match_mentions and of the description closure: the
\* position of the first user whose lower-cased name contains the typed name
FindUser(user_name, available_users) ==
  LET NameContains(user) == Contains(to_lowercase(user.name), user_name)
  IN FindIndex({i \in 1..Len(available_users) : NameContains(available_users[i])})

\* positions in available_users, one per mention; 0 where expect() panics
match_mentions(string, available_users) ==
  LET ms == MENTION_MATCHER(string)
  IN [i \in 1..Len(ms) |->
        FindUser(trim(remove_str(MatchStr(string, ms[i]), <<"@">>)), available_users)]

RECURSIVE ParseNat(_)
\* str::parse of a run of decimal digits
ParseNat(digits) ==
  IF digits = <<>> THEN 0
  ELSE 10 * ParseNat(SubSeq(digits, 1, Len(digits) - 1))
       + (IndexIn(DigitAlphabet, digits[Len(digits)]) - 1)

\* the estimate of the first match, in seconds (3600 times the hours the
\* program computes: a day is 8 hours)
get_estimate(title) ==
  LET all == ESTIMATE_MATCHER(title)
  IN IF all = <<>> THEN 0
     ELSE LET captures == all[1]
          IN ParseNat(captures.days) * 8 * 3600
             + ParseNat(captures.hours) * 3600
             + ParseNat(captures.minutes) * 60
             + ParseNat(captures.seconds)

\* [ok, id]: ok is FALSE where expect() panics
get_importance_level(title, available_importance_levels) ==
  LET ms == URGENCY_MATCHER(title)
      urgency == remove_str(MatchStr(title, ms[1]), <<"!">>)
      NameContains(level) == Contains(to_lowercase(level.name), urgency)
      IsDefault(level) == level.is_default
      k == IF ms # <<>>
           THEN FindIndex({i \in 1..Len(available_importance_levels) :
                              NameContains(available_importance_levels[i])})
           ELSE FindIndex({i \in 1..Len(available_importance_levels) :
                              IsDefault(available_importance_levels[i])})
  IN IF k = 0 THEN [ok |-> FALSE, id |-> 0]
     ELSE [ok |-> TRUE, id |-> available_importance_levels[k].id]

(* ---------------------------------------------------------------------- *)
(* Building one ticket from one block                                     *)
(* ---------------------------------------------------------------------- *)

TICKET_DELIMITER ==
  <<"-","-","-">>

TITLE_DELIMITER ==
  <<"=","=","=">>

\* the texts of main: the non-blank blocks of the document
split_texts(contents) ==
  SelectSeq(split(contents, TICKET_DELIMITER), LAMBDA text : Len(trim(text)) > 0)

\* the local default_category of main
default_category ==
  None

\* chunks.next().unwrap().trim()
first_chunk(text) ==
  trim(split(text, TITLE_DELIMITER)[1])

\* the title the build pass resolves: the first chunk, with the default
\* category hash-tag appended when default_category is Some
build_title(text) ==
  IF default_category.some
  THEN first_chunk(text) \o <<" ", "#">> \o default_category.value
  ELSE first_chunk(text)

\* chunks.next().unwrap_or("").trim(): the second chunk, later chunks dropped
second_chunk(text) ==
  LET chunks == split(text, TITLE_DELIMITER)
  IN IF Len(chunks) >= 2 THEN trim(chunks[2]) ELSE <<>>

\* the four replace_all calls, then trim / split_whitespace / join(" ")
clean_title(title) ==
  LET t1 == remove_all(title, HASH_TAG_MATCHER(title))
      t2 == remove_all(t1, MENTION_MATCHER(t1))
      t3 == remove_all(t2, ESTIMATE_MATCHER(t2))
      t4 == remove_all(t3, URGENCY_MATCHER(t3))
  IN join(split_whitespace(trim(t4)), <<" ">>)

\* positions in available_users for the mentions of the description
description_users(description, available_users) ==
  LET ms == MENTION_MATCHER(description)
  IN [i \in 1..Len(ms) |->
        FindUser(remove_str(MatchStr(description, ms[i]), <<"@">>), available_users)]

\* the description with every mention replaced by @username
rewrite_mentions(description, available_users) ==
  LET found == description_users(description, available_users)
  IN replace_all(description, MENTION_MATCHER(description),
                 [i \in 1..Len(found) |-> <<"@">> \o available_users[found[i]].username])

sub_tasks_of(description) ==
  LET ms == SUBTASK_MATCHER(description)
  IN [i \in 1..Len(ms) |-> trim(remove_str(MatchStr(description, ms[i]), <<"[", "]">>))]

strip_sub_tasks(description) ==
  trim(remove_all(description, SUBTASK_MATCHER(description)))

Categories(categories_or_tags) ==
  SelectSeq(categories_or_tags, LAMBDA entry : entry.kind = "Category")

\* the first expect() that panics while the block is built, "none" if none does
build_panic(text, categories, tags, users, importance_levels) ==
  LET title == build_title(text)
  IN IF \E i \in DOMAIN match_mentions(title, users) :
          match_mentions(title, users)[i] = 0
     THEN "To find a user for user_name"
     ELSE IF ~get_importance_level(title, importance_levels).ok
     THEN "to find importance level"
     ELSE IF \E i \in DOMAIN description_users(second_chunk(text), users) :
               description_users(second_chunk(text), users)[i] = 0
     THEN "To find a user for user_name in description"
     ELSE IF Categories(match_tags_and_categories(title, categories,
                                                  tags)) = <<>>
     THEN "To have atleast one category available for ticket"
     ELSE "none"

\* the Ticket pushed for the block (the block builds without a panic)
build_ticket(text, categories, tags, users, importance_levels) ==
  LET title == build_title(text)
      categories_or_tags ==
        match_tags_and_categories(title, categories, tags)
      mentions == match_mentions(title, users)
      description == rewrite_mentions(second_chunk(text), users)
      tag_entries == SelectSeq(categories_or_tags, LAMBDA entry : entry.kind = "Tag")
  IN [title |-> clean_title(title),
      description |-> strip_sub_tasks(description),
      assigned_user_ids |-> [i \in 1..Len(mentions) |-> users[mentions[i]].id],
      tag_ids |-> [i \in 1..Len(tag_entries) |-> tag_entries[i].id],
      category_id |-> Categories(categories_or_tags)[1].id,
      estimated_cost |-> get_estimate(title),
      sub_tasks |-> sub_tasks_of(description),
      importance_level_id |-> get_importance_level(title, importance_levels).id,
      parent_id |-> 0, is_story |-> FALSE, board_id |-> 0,
      start_date |-> <<>>, due_date |-> <<>>, dependency_ids |-> <<>>]

\* the UnaddedTag names of the titles, in block order, then sort and dedup
collect_unmatched_tags(texts, available_categories, available_tags) ==
  LET UnaddedOf(text) ==
        LET found == SelectSeq(match_tags_and_categories(first_chunk(text),
                                   available_categories, available_tags),
                               LAMBDA entry : entry.kind = "UnaddedTag")
        IN [i \in 1..Len(found) |-> found[i].name]
  IN dedup(sort(Concat([b \in 1..Len(texts) |-> UnaddedOf(texts[b])])))

(* ---------------------------------------------------------------------- *)
(* Inputs                                                                 *)
(* ---------------------------------------------------------------------- *)

\* the longest document, in blocks
MaxBlocks ==
  2

Blocks ==
  { <<"f","i","x"," ","#","f","o","o">>,
    <<"#","F","o","o"," ","x","\n","=","=","=","\n","p","i","n","g"," ","@","b","o">>,
    <<"a"," ","#","b","a","r"," ","#","f","o","o"," ","@","b","o">>,
    <<"#","~","a","b"," ","#","f","o","o"," ","~","1","d","2","h">>,
    <<"b"," ","@","B","o"," ","#","f","o","o">>,
    <<"c"," ","#","n","e","w"," ","#","f","o","o"," ","!","h","i","\n","=","=","=","\n","[","]"," ","t","\n","z","\n","=","=","=","\n","w">>,
    <<"p","l","a","i","n">>,
    <<"d"," ","#","N","e","w"," ","#","n","e","w"," ","#","f","o","o","\n","=","=","=","\n","e"," ","#","z","z">> }

BlockSeqs ==
  UNION { [1..n -> Blocks] : n \in 1..MaxBlocks }

BLOCK_SEPARATOR ==
  <<"\n">> \o TICKET_DELIMITER \o <<"\n">>

\* every block is followed by a line holding the ticket delimiter
Documents ==
  { join(blocks, BLOCK_SEPARATOR) \o BLOCK_SEPARATOR : blocks \in BlockSeqs }

NoFile ==
  [some |-> FALSE, value |-> <<>>]

Files ==
  { Some(d) : d \in Documents } \cup {NoFile}

DefaultCategoryOptions ==
  { None, Some(<<"f","o","o">>) }

CategoryCatalogs ==
  { << [id |-> 1, name |-> <<"f","o","o">>] >>,
    << [id |-> 1, name |-> <<"F","o","o">>], [id |-> 2, name |-> <<"b","a","r">>] >> }

TagCatalogs ==
  { << >>,
    << [id |-> 5, name |-> <<"b","a","r">>] >> }

UserCatalogs ==
  { << [id |-> 3, name |-> <<"B","o","b">>, username |-> <<"b","o","b","9","2">>] >>,
    << [id |-> 4, name |-> <<"A","b","o">>, username |-> <<"a","b","o","1">>],
       [id |-> 3, name |-> <<"B","o","b">>, username |-> <<"b","o","b","9","2">>] >> }

ImportanceCatalogs ==
  { << [id |-> 1, name |-> <<"H","i","g","h">>, is_default |-> FALSE],
       [id |-> 2, name |-> <<"N","o","r","m","a","l">>, is_default |-> TRUE] >>,
    << [id |-> 1, name |-> <<"H","i","g","h">>, is_default |-> FALSE] >> }

Answers ==
  {"yes", "no", "error"}

(* ---------------------------------------------------------------------- *)
(* The run of main                                                        *)
(* ---------------------------------------------------------------------- *)

VARIABLES
  pc,                          \* where main is
  arguments,                   \* [dry_run, default_category], as parsed by clap
  file,                        \* the file at arguments.file: Some(text) or NoFile
  remote_categories,           \* the service's catalogs
  remote_tags,
  remote_users,
  remote_importance_levels,
  remote_tickets,              \* the tickets the service accepted
  contents,
  texts,
  available_categories,        \* the snapshots bound in main
  available_tags,
  available_users,
  available_importance_levels,
  fetches,                     \* catalog requests sent so far
  categories_fetch,            \* which request produced available_categories
  tags_fetch,                  \* which request produced available_tags
  prepass_snapshots,           \* the requests whose snapshots the pre-pass read
  build_snapshots,             \* the requests whose snapshots the build pass read
  unmatched_tags,
  prompts,                     \* confirmation prompts shown
  answer,                      \* the operator's last answer, "none" before any
  tag_index,                   \* position of add_unmatched_tags in its loop
  text_index,                  \* position of the build loop
  tickets,
  ticket_index,                \* position of the submission loop
  create_calls,                \* tag names sent in creation requests
  submit_calls,                \* tickets sent in submission requests
  printed,                     \* payloads rendered by println!
  panic_msg                    \* the expect() that ended the run, "none" if none

vars ==
  << pc, arguments, file, remote_categories, remote_tags, remote_users,
     remote_importance_levels, remote_tickets, contents, texts,
     available_categories, available_tags, available_users,
     available_importance_levels, fetches, categories_fetch, tags_fetch,
     prepass_snapshots, build_snapshots, unmatched_tags, prompts, answer,
     tag_index, text_index, tickets, ticket_index, create_calls, submit_calls,
     printed, panic_msg >>

remote ==
  << remote_categories, remote_tags, remote_users, remote_importance_levels,
     remote_tickets >>

inputs ==
  << arguments, file >>

parsed ==
  << contents, texts >>

snapshots ==
  << available_categories, available_tags, available_users,
     available_importance_levels, fetches, categories_fetch, tags_fetch >>

passes ==
  << prepass_snapshots, build_snapshots, unmatched_tags, prompts, answer,
     tag_index, text_index, tickets, ticket_index >>

effects ==
  << create_calls, submit_calls, printed >>

Init ==
  /\ pc = "read_file"
  /\ arguments \in [dry_run : BOOLEAN, default_category : DefaultCategoryOptions]
  /\ file \in Files
  /\ remote_categories \in CategoryCatalogs
  /\ remote_tags \in TagCatalogs
  /\ remote_users \in UserCatalogs
  /\ remote_importance_levels \in ImportanceCatalogs
  /\ remote_tickets = <<>>
  /\ contents = <<>>
  /\ texts = <<>>
  /\ available_categories = <<>>
  /\ available_tags = <<>>
  /\ available_users = <<>>
  /\ available_importance_levels = <<>>
  /\ fetches = 0
  /\ categories_fetch = 0
  /\ tags_fetch = 0
  /\ prepass_snapshots = {}
  /\ build_snapshots = {}
  /\ unmatched_tags = <<>>
  /\ prompts = 0
  /\ answer = "none"
  /\ tag_index = 1
  /\ text_index = 1
  /\ tickets = <<>>
  /\ ticket_index = 1
  /\ create_calls = <<>>
  /\ submit_calls = <<>>
  /\ printed = <<>>
  /\ panic_msg = "none"

\* a failed expect(): the process ends
Panic(msg) ==
  /\ pc' = "panicked"
  /\ panic_msg' = msg

\* fs::read_to_string, then the split into texts
ReadFile ==
  /\ pc = "read_file"
  /\ IF file.some
     THEN /\ contents' = file.value
          /\ texts' = split_texts(file.value)
          /\ pc' = "fetch_categories"
          /\ UNCHANGED panic_msg
     ELSE /\ Panic("To read file")
          /\ UNCHANGED parsed
  /\ UNCHANGED << inputs, remote, snapshots, passes, effects >>

\* get_available_categories: the request is answered or fails
FetchCategories ==
  /\ pc = "fetch_categories"
  /\ fetches' = fetches + 1
  /\ \/ /\ available_categories' = remote_categories
        /\ categories_fetch' = fetches + 1
        /\ pc' = "fetch_tags"
        /\ UNCHANGED panic_msg
     \/ /\ Panic("To get categories from Hack'n'Plan")
        /\ UNCHANGED << available_categories, categories_fetch >>
  /\ UNCHANGED << inputs, remote, parsed, available_tags, available_users,
                  available_importance_levels, tags_fetch, passes, effects >>

\* get_available_tags, called before the pre-pass
FetchTags ==
  /\ pc = "fetch_tags"
  /\ fetches' = fetches + 1
  /\ \/ /\ available_tags' = remote_tags
        /\ tags_fetch' = fetches + 1
        /\ pc' = "fetch_users"
        /\ UNCHANGED panic_msg
     \/ /\ Panic("To get tags from Hack'n'Plan")
        /\ UNCHANGED << available_tags, tags_fetch >>
  /\ UNCHANGED << inputs, remote, parsed, available_categories, available_users,
                  available_importance_levels, categories_fetch, passes, effects >>

\* get_available_users
FetchUsers ==
  /\ pc = "fetch_users"
  /\ fetches' = fetches + 1
  /\ \/ /\ available_users' = remote_users
        /\ pc' = "fetch_importance_levels"
        /\ UNCHANGED panic_msg
     \/ /\ Panic("To get tags from Hack'n'Plan")
        /\ UNCHANGED available_users
  /\ UNCHANGED << inputs, remote, parsed, available_categories, available_tags,
                  available_importance_levels, categories_fetch, tags_fetch,
                  passes, effects >>

\* get_available_importance_levels
FetchImportanceLevels ==
  /\ pc = "fetch_importance_levels"
  /\ fetches' = fetches + 1
  /\ \/ /\ available_importance_levels' = remote_importance_levels
        /\ pc' = "pre_pass"
        /\ UNCHANGED panic_msg
     \/ /\ Panic("To get importanceLevels from Hack'n'Plan")
        /\ UNCHANGED available_importance_levels
  /\ UNCHANGED << inputs, remote, parsed, available_categories, available_tags,
                  available_users, categories_fetch, tags_fetch, passes, effects >>

\* the pre-pass over the titles, with its sort and dedup
PrePass ==
  /\ pc = "pre_pass"
  /\ unmatched_tags' = collect_unmatched_tags(texts, available_categories, available_tags)
  /\ prepass_snapshots' = {categories_fetch, tags_fetch}
  /\ pc' = "confirm"
  /\ UNCHANGED << inputs, remote, parsed, snapshots, build_snapshots, prompts,
                  answer, tag_index, text_index, tickets, ticket_index, effects,
                  panic_msg >>

\* whether main shows the confirmation prompt
must_confirm(dry_run, unmatched) ==
  ~dry_run /\ Len(unmatched) > 0

\* a prompt error taken for consent
confirmed_unless_no(reply) ==
  reply # "no"

\* whether main goes on after the operator's answer
confirmed(reply) ==
  reply = "yes"

\* the prompt: Ok(true) goes on, anything else returns from main
Confirm ==
  /\ pc = "confirm"
  /\ IF must_confirm(arguments.dry_run, unmatched_tags)
     THEN \E reply \in Answers :
            /\ prompts' = prompts + 1
            /\ answer' = reply
            /\ pc' = IF confirmed(reply) THEN "add_unmatched_tags" ELSE "done"
     ELSE /\ pc' = "add_unmatched_tags"
          /\ UNCHANGED << prompts, answer >>
  /\ UNCHANGED << inputs, remote, parsed, snapshots, prepass_snapshots,
                  build_snapshots, unmatched_tags, tag_index, text_index,
                  tickets, ticket_index, effects, panic_msg >>

\* the id the service gives a tag it creates: one no catalog entry has yet
NewTagId ==
  1 + Len(remote_tags) + 10

\* the dry-run flag not looked at
sends_tag_always(dry_run) ==
  TRUE

\* whether add_unmatched_tags sends the request for a tag (it prints otherwise)
sends_tag(dry_run) ==
  ~dry_run

\* one iteration of add_unmatched_tags: the datum is printed, or the request
\* carrying it is sent (to the categories URL of the project); the service
\* creates the tag, answers without creating it (the response status is not
\* looked at), or the request fails
AddUnmatchedTag ==
  /\ pc = "add_unmatched_tags"
  /\ tag_index <= Len(unmatched_tags)
  /\ tag_index' = tag_index + 1
  /\ IF sends_tag(arguments.dry_run)
     THEN /\ create_calls' = Append(create_calls, unmatched_tags[tag_index])
          /\ UNCHANGED << submit_calls, printed >>
          /\ \/ /\ remote_tags' = Append(remote_tags,
                                     [id |-> NewTagId, name |-> unmatched_tags[tag_index]])
                /\ UNCHANGED << pc, panic_msg >>
             \/ UNCHANGED << remote_tags, pc, panic_msg >>
             \/ /\ Panic("Creation of tag would go successfully")
                /\ UNCHANGED remote_tags
     ELSE /\ printed' = Append(printed, [kind |-> "datum", payload |-> unmatched_tags[tag_index]])
          /\ UNCHANGED << create_calls, submit_calls, remote_tags, pc, panic_msg >>
  /\ UNCHANGED << inputs, remote_categories, remote_users, remote_importance_levels,
                  remote_tickets, parsed, snapshots, prepass_snapshots,
                  build_snapshots, unmatched_tags, prompts, answer, text_index,
                  tickets, ticket_index >>

\* add_unmatched_tags returns
AddUnmatchedTagsDone ==
  /\ pc = "add_unmatched_tags"
  /\ tag_index > Len(unmatched_tags)
  /\ pc' = "refetch_tags"
  /\ UNCHANGED << inputs, remote, parsed, snapshots, passes, effects, panic_msg >>

\* the second get_available_tags, which shadows available_tags
RefetchTags ==
  /\ pc = "refetch_tags"
  /\ fetches' = fetches + 1
  /\ \/ /\ available_tags' = remote_tags
        /\ tags_fetch' = fetches + 1
        /\ pc' = "build"
        /\ UNCHANGED panic_msg
     \/ /\ Panic("To get tags from Hack'n'Plan")
        /\ UNCHANGED << available_tags, tags_fetch >>
  /\ UNCHANGED << inputs, remote, parsed, available_categories, available_users,
                  available_importance_levels, categories_fetch, passes, effects >>

\* a block without a category skipped instead of ending the run
BuildTicket_skips_block ==
  /\ pc = "build"
  /\ text_index <= Len(texts)
  /\ build_snapshots' = build_snapshots \cup {categories_fetch, tags_fetch}
  /\ LET msg == build_panic(texts[text_index], available_categories, available_tags,
                            available_users, available_importance_levels)
     IN IF msg = "none"
        THEN /\ tickets' = Append(tickets,
                             build_ticket(texts[text_index], available_categories,
                                          available_tags, available_users,
                                          available_importance_levels))
             /\ text_index' = text_index + 1
             /\ UNCHANGED << pc, panic_msg >>
        ELSE IF msg = "To have atleast one category available for ticket"
        THEN /\ text_index' = text_index + 1
             /\ UNCHANGED << tickets, pc, panic_msg >>
        ELSE /\ Panic(msg)
             /\ UNCHANGED << tickets, text_index >>
  /\ UNCHANGED << inputs, remote, parsed, snapshots, prepass_snapshots,
                  unmatched_tags, prompts, answer, tag_index, ticket_index, effects >>

\* one iteration of the build loop: the ticket is pushed or an expect() panics
BuildTicket ==
  /\ pc = "build"
  /\ text_index <= Len(texts)
  /\ build_snapshots' = build_snapshots \cup {categories_fetch, tags_fetch}
  /\ LET msg == build_panic(texts[text_index], available_categories, available_tags,
                            available_users, available_importance_levels)
     IN IF msg = "none"
        THEN /\ tickets' = Append(tickets,
                             build_ticket(texts[text_index], available_categories,
                                          available_tags, available_users,
                                          available_importance_levels))
             /\ text_index' = text_index + 1
             /\ UNCHANGED << pc, panic_msg >>
        ELSE /\ Panic(msg)
             /\ UNCHANGED << tickets, text_index >>
  /\ UNCHANGED << inputs, remote, parsed, snapshots, prepass_snapshots,
                  unmatched_tags, prompts, answer, tag_index, ticket_index, effects >>

\* the build loop ends
BuildDone ==
  /\ pc = "build"
  /\ text_index > Len(texts)
  /\ pc' = "submit"
  /\ UNCHANGED << inputs, remote, parsed, snapshots, passes, effects, panic_msg >>

\* whether the submission loop sends the request for a ticket
sends_ticket(dry_run) ==
  ~dry_run

\* a failed submission logged and the loop carried on
SubmitTicket_carries_on ==
  /\ pc = "submit"
  /\ ticket_index <= Len(tickets)
  /\ ticket_index' = ticket_index + 1
  /\ IF sends_ticket(arguments.dry_run)
     THEN /\ printed' = Append(printed, [kind |-> "uploading", payload |-> tickets[ticket_index]])
          /\ submit_calls' = Append(submit_calls, tickets[ticket_index])
          /\ \/ remote_tickets' = Append(remote_tickets, tickets[ticket_index])
             \/ UNCHANGED remote_tickets
          /\ UNCHANGED << pc, panic_msg >>
     ELSE /\ printed' = Append(printed, [kind |-> "pretend", payload |-> tickets[ticket_index]])
          /\ UNCHANGED << submit_calls, remote_tickets, pc, panic_msg >>
  /\ UNCHANGED << inputs, remote_categories, remote_tags, remote_users,
                  remote_importance_levels, parsed, snapshots, prepass_snapshots,
                  build_snapshots, unmatched_tags, prompts, answer, tag_index,
                  text_index, tickets, create_calls >>

\* one iteration of the submission loop: the ticket is printed, or it is
\* printed and the request carrying it is sent (to the categories URL of
\* the project); the service accepts it, or the request fails or is
\* answered with an error status
SubmitTicket ==
  /\ pc = "submit"
  /\ ticket_index <= Len(tickets)
  /\ ticket_index' = ticket_index + 1
  /\ IF sends_ticket(arguments.dry_run)
     THEN /\ printed' = Append(printed, [kind |-> "uploading", payload |-> tickets[ticket_index]])
          /\ submit_calls' = Append(submit_calls, tickets[ticket_index])
          /\ \/ /\ remote_tickets' = Append(remote_tickets, tickets[ticket_index])
                /\ UNCHANGED << pc, panic_msg >>
             \/ /\ Panic("to send ticket successfully")
                /\ UNCHANGED remote_tickets
     ELSE /\ printed' = Append(printed, [kind |-> "pretend", payload |-> tickets[ticket_index]])
          /\ UNCHANGED << submit_calls, remote_tickets, pc, panic_msg >>
  /\ UNCHANGED << inputs, remote_categories, remote_tags, remote_users,
                  remote_importance_levels, parsed, snapshots, prepass_snapshots,
                  build_snapshots, unmatched_tags, prompts, answer, tag_index,
                  text_index, tickets, create_calls >>

\* main returns
SubmitDone ==
  /\ pc = "submit"
  /\ ticket_index > Len(tickets)
  /\ pc' = "done"
  /\ UNCHANGED << inputs, remote, parsed, snapshots, passes, effects, panic_msg >>

Next ==
  \/ ReadFile
  \/ FetchCategories
  \/ FetchTags
  \/ FetchUsers
  \/ FetchImportanceLevels
  \/ PrePass
  \/ Confirm
  \/ AddUnmatchedTag
  \/ AddUnmatchedTagsDone
  \/ RefetchTags
  \/ BuildTicket
  \/ BuildDone
  \/ SubmitTicket
  \/ SubmitDone

Spec ==
  Init /\ [][Next]_vars

TypeOK ==
  /\ pc \in {"read_file", "fetch_categories", "fetch_tags", "fetch_users",
             "fetch_importance_levels", "pre_pass", "confirm", "add_unmatched_tags",
             "refetch_tags", "build", "submit", "done", "panicked"}
  /\ fetches \in 0..5
  /\ tag_index \in 1..(Len(unmatched_tags) + 1)
  /\ text_index \in 1..(Len(texts) + 1)
  /\ ticket_index \in 1..(Len(tickets) + 1)
  /\ (pc = "panicked") = (panic_msg # "none")

(* ---------------------------------------------------------------------- *)
(* Properties                                                             *)
(* ---------------------------------------------------------------------- *)

Min(S) ==
  CHOOSE x \in S : \A y \in S : x <= y

\* the name typed after the sigil of a match
Token(s, m) ==
  SubSeq(s, m.lo + 1, m.hi)

\* the catalog positions whose name is the token, letter case ignored on
\* both sides
SameNameIgnoringCase(token, catalog) ==
  { c \in 1..Len(catalog) : to_lowercase(catalog[c].name) = to_lowercase(token) }

\* the user positions whose display name contains the token, letter case
\* ignored on both sides
ContainsIgnoringCase(token, users) ==
  { u \in 1..Len(users) : Contains(to_lowercase(users[u].name), to_lowercase(token)) }

\* the catalog positions whose lower-cased name is the token as typed
SameNameAsTyped(token, catalog) ==
  { c \in 1..Len(catalog) : to_lowercase(catalog[c].name) = token }

\* the hash-tags of a title that resolve to a category, as positions in
\* the list of its hash-tags
ResolvedCategories(title, catalog) ==
  LET ms == HASH_TAG_MATCHER(title)
  IN { k \in 1..Len(ms) : SameNameAsTyped(Token(title, ms[k]), catalog) # {} }

\* the id of the first hash-tag of the title that resolves to a category
FirstCategoryId(title, catalog) ==
  LET ms == HASH_TAG_MATCHER(title)
      k == Min(ResolvedCategories(title, catalog))
  IN catalog[Min(SameNameAsTyped(Token(title, ms[k]), catalog))].id

Declined ==
  answer \in {"no", "error"}

CategoriesFetched ==
  categories_fetch # 0

BuildPassReached ==
  pc \in {"build", "submit"} \/ (pc = "done" /\ ~Declined)
    \/ (pc = "panicked" /\ build_snapshots # {})

\* C1: a run that is not a dry run, has unmatched tags and gets any answer
\* but yes at the prompt (a no or a prompt error) has ended, and has sent no
\* tag-creation request and no ticket-submission request.
C1_DeclineEndsRunUntouched ==
  (~arguments.dry_run /\ Len(unmatched_tags) > 0 /\ Declined)
    => /\ pc = "done"
       /\ create_calls = <<>>
       /\ submit_calls = <<>>
       /\ remote_tickets = <<>>
       /\ tickets = <<>>

C1_Witness ==
  /\ ~arguments.dry_run
  /\ Len(unmatched_tags) > 0
  /\ answer = "error"
  /\ pc = "done"

\* the payloads a dry run has rendered when its loops are at the given positions
Rendered(tags, n_tags, built, n_tickets) ==
  [i \in 1..n_tags |-> [kind |-> "datum", payload |-> tags[i]]]
    \o [i \in 1..n_tickets |-> [kind |-> "pretend", payload |-> built[i]]]

\* C2: in a dry run no tag-creation request and no ticket-submission
\* request is ever sent and the prompt is never shown; every tag and ticket
\* the loops have passed has been rendered instead, in order.
C2_DryRunOnlyRenders ==
  arguments.dry_run
    => /\ create_calls = <<>>
       /\ submit_calls = <<>>
       /\ remote_tickets = <<>>
       /\ prompts = 0
       /\ answer = "none"
       /\ printed = Rendered(unmatched_tags, tag_index - 1, tickets, ticket_index - 1)
       /\ (pc = "done" => printed = Rendered(unmatched_tags, Len(unmatched_tags),
                                              tickets, Len(tickets)))

C2_Witness ==
  /\ arguments.dry_run
  /\ pc = "done"
  /\ Len(unmatched_tags) > 0
  /\ Len(tickets) > 1
  /\ Len(printed) = Len(unmatched_tags) + Len(tickets)

SendFailed ==
  panic_msg = "to send ticket successfully"

\* C3: the submission requests are the built tickets in block order, each
\* at most once; none is sent before every block is built; after a failed
\* submission nothing more is sent and the tickets accepted before it stay
\* accepted.
C3_SubmissionInOrderAfterBuild ==
  /\ Len(submit_calls) <= Len(tickets)
  /\ submit_calls = SubSeq(tickets, 1, Len(submit_calls))
  /\ (~arguments.dry_run => Len(submit_calls) = ticket_index - 1)
  /\ (submit_calls # <<>> => text_index = Len(texts) + 1 /\ Len(tickets) = Len(texts))
  /\ \A i \in 1..Len(tickets) : tickets[i].title = clean_title(build_title(texts[i]))
  /\ IF SendFailed
     THEN /\ pc = "panicked"
          /\ remote_tickets = SubSeq(submit_calls, 1, Len(submit_calls) - 1)
     ELSE remote_tickets = submit_calls

C3_Witness ==
  /\ SendFailed
  /\ Len(remote_tickets) >= 1
  /\ Len(submit_calls) = Len(remote_tickets) + 1

\* a block with more than one title delimiter
Malformed(text) ==
  Len(split(text, TITLE_DELIMITER)) > 2

\* C4: a document with a non-empty block holding more than one === is
\* rejected before any network interaction: no catalog request, no tag
\* creation, no submission, and no ticket is built from a truncated block.
C4_MalformedRejectedBeforeNetwork ==
  (pc # "read_file" /\ \E i \in 1..Len(texts) : Malformed(texts[i]))
    => /\ fetches = 0
       /\ create_calls = <<>>
       /\ submit_calls = <<>>
       /\ tickets = <<>>

\* C5: the build pass reads no catalog snapshot that the pre-pass read: its
\* category and tag snapshots both come from requests made after the
\* pre-pass.
C5_SnapshotGenerationsNotMixed ==
  /\ prepass_snapshots \cap build_snapshots = {}
  /\ \A b \in build_snapshots : \A p \in prepass_snapshots : b > p

\* C6: a hash-tag whose name is a category's name, letter case ignored, is
\* classified as that category; it gives the built ticket its categoryId
\* when it is the first such hash-tag of the title; it is not in the
\* cleaned title.
C6_CategoryMatchIgnoresCase ==
  CategoriesFetched =>
    \A i \in 1..Len(texts) :
      LET title == build_title(texts[i])
          ms == HASH_TAG_MATCHER(title)
          found == match_tags_and_categories(title, available_categories, available_tags)
          hits == { k \in 1..Len(ms) :
                      SameNameIgnoringCase(Token(title, ms[k]), available_categories) # {} }
      IN /\ \A k \in hits :
              /\ found[k].kind = "Category"
              /\ found[k].id =
                   available_categories[
                     Min(SameNameIgnoringCase(Token(title, ms[k]), available_categories))].id
         /\ (i <= Len(tickets) /\ hits # {}) =>
              /\ tickets[i].category_id =
                   available_categories[
                     Min(SameNameIgnoringCase(Token(title, ms[Min(hits)]),
                                              available_categories))].id
              /\ \A k \in hits : ~Contains(tickets[i].title, MatchStr(title, ms[k]))

\* C7: cleaning a cleaned title changes nothing.
C7_CleanupIdempotent ==
  \A i \in 1..Len(tickets) : clean_title(tickets[i].title) = tickets[i].title

MissingCategory ==
  panic_msg = "To have atleast one category available for ticket"

\* C8: when the title of some block resolves no category, no ticket of the
\* document is submitted or rendered as submitted and the run does not get
\* past the build pass; every ticket submitted carries the id of the first
\* hash-tag of its title that resolved to a category.
C8_MissingCategoryAbortsRun ==
  /\ \/ /\ submit_calls = <<>>
        /\ remote_tickets = <<>>
        /\ ticket_index = 1
        /\ pc # "submit"
        /\ (pc = "done" => Declined)
     \/ ~ /\ CategoriesFetched
          /\ \E i \in 1..Len(texts) :
               ResolvedCategories(build_title(texts[i]), available_categories) = {}
  /\ \A i \in 1..Len(submit_calls) :
       /\ ResolvedCategories(build_title(texts[i]), available_categories) # {}
       /\ submit_calls[i].category_id
            = FirstCategoryId(build_title(texts[i]), available_categories)

C8_Witness ==
  /\ MissingCategory
  /\ pc = "panicked"
  /\ ~arguments.dry_run
  /\ Len(tickets) >= 1
  /\ submit_calls = <<>>

\* C9: with the default-category option set to a name of the category
\* catalog, `#name` is appended to every title the build pass resolves, so
\* no block fails for a missing category and a block without a category
\* hash-tag of its own gets the id of that category.
C9_DefaultCategoryAppended ==
  (arguments.default_category.some /\ CategoriesFetched
     /\ SameNameAsTyped(arguments.default_category.value, available_categories) # {})
    => /\ ~MissingCategory
       /\ \A i \in 1..Len(tickets) :
            ResolvedCategories(first_chunk(texts[i]), available_categories) = {}
              => tickets[i].category_id =
                   available_categories[
                     Min(SameNameAsTyped(arguments.default_category.value,
                                         available_categories))].id

MentionPanic ==
  panic_msg \in {"To find a user for user_name",
                 "To find a user for user_name in description"}

\* C10: every mention resolves to the first user whose display name
\* contains the typed name, letter case ignored: the build fails for a
\* mention only when no user does, a title mention gives the ticket that
\* user's id, and a description mention is rewritten to @ and that user's
\* handle.
C10_MentionFirstContainingUser ==
  /\ MentionPanic =>
       \E m \in { Token(build_title(texts[text_index]), mm) :
                    mm \in { MENTION_MATCHER(build_title(texts[text_index]))[k] :
                               k \in 1..Len(MENTION_MATCHER(build_title(texts[text_index]))) } }
               \cup
               { Token(second_chunk(texts[text_index]), mm) :
                    mm \in { MENTION_MATCHER(second_chunk(texts[text_index]))[k] :
                               k \in 1..Len(MENTION_MATCHER(second_chunk(texts[text_index]))) } } :
         ContainsIgnoringCase(m, available_users) = {}
  /\ \A i \in 1..Len(tickets) :
       LET title == build_title(texts[i])
           ms == MENTION_MATCHER(title)
           body == second_chunk(texts[i])
           bs == MENTION_MATCHER(body)
       IN /\ tickets[i].assigned_user_ids =
               [k \in 1..Len(ms) |->
                  available_users[Min(ContainsIgnoringCase(Token(title, ms[k]),
                                                           available_users))].id]
          /\ strip_sub_tasks(
               replace_all(body, bs,
                 [k \in 1..Len(bs) |->
                    <<"@">> \o available_users[
                       Min(ContainsIgnoringCase(Token(body, bs[k]),
                                                available_users))].username]))
               = tickets[i].description

PrePassDone ==
  prepass_snapshots # {}

\* the snapshots of the pre-pass are still the ones bound in main
PrePassSnapshotsBound ==
  pc \in {"confirm", "add_unmatched_tags", "refetch_tags"} \/ (pc = "done" /\ Declined)

\* the hash-tags of a title that the resolver finds in neither catalog, as
\* positions in the list of its hash-tags
InNeitherCatalog(title) ==
  { k \in 1..Len(HASH_TAG_MATCHER(title)) :
      /\ SameNameAsTyped(Token(title, HASH_TAG_MATCHER(title)[k]), available_categories) = {}
      /\ SameNameAsTyped(Token(title, HASH_TAG_MATCHER(title)[k]), available_tags) = {} }

\* the lower-cased names of the title hash-tags that are in neither catalog
UnmatchedNames ==
  UNION { { to_lowercase(Token(first_chunk(texts[i]), HASH_TAG_MATCHER(first_chunk(texts[i]))[k])) :
              k \in InNeitherCatalog(first_chunk(texts[i])) } :
          i \in 1..Len(texts) }

\* C11: after the pre-pass the unmatched-tag list holds exactly the
\* lower-cased names of the title hash-tags that are in neither catalog,
\* each once whatever its letter case, in lexicographic order; tag creation
\* is requested once per name the loop has passed, in that order.
C11_UnmatchedTagsLowerCasedSortedOnce ==
  /\ PrePassSnapshotsBound =>
       /\ { unmatched_tags[i] : i \in 1..Len(unmatched_tags) } = UnmatchedNames
       /\ \A i \in 1..(Len(unmatched_tags) - 1) :
            StrLess(unmatched_tags[i], unmatched_tags[i + 1])
  /\ (PrePassDone /\ ~arguments.dry_run) =>
       create_calls = SubSeq(unmatched_tags, 1, tag_index - 1)

====
